---------------------------- MODULE Spec2Model ----------------------------
(***************************************************************************)
(* A model of mlflow/sklearn/utils.py: the argument recoverer (_get_Xy,    *)
(* _get_sample_weight, _get_args_for_score), the three metric-logging      *)
(* entry points, the dict utilities (_chunk_dict, _truncate_dict) and the  *)
(* backported estimator discovery (_backported_all_estimators).            *)
(*                                                                         *)
(* Python values the code never inspects (X, y, sample weights) are opaque *)
(* tokens.  A call's outcome is a record [exc, val]: exc = "none" and val  *)
(* the returned tuple, or exc the exception's type and val its arguments.  *)
(***************************************************************************)
EXTENDS Integers, Sequences, FiniteSets, TLC

VARIABLES
    \* ---- argument recoverer, called directly
    xy_call,        \* the call made: [op, args, kwargs, first, second, score, fit]
    xy_result,      \* its outcome, or NotCalled
    \* ---- metric-logging entry points
    entry,          \* which entry point runs: "classifier", "regressor", "clusterer"
    fit_arg_names,  \* _get_arg_names(trained_model.fit)
    fit_args,       \* positional arguments of the fit call
    fit_kwargs,     \* keyword arguments of the fit call
    pc,             \* "start", "loop", "returned", "raised"
    idx,            \* position of the for loop in name_obj_metrics_dict (1-based)
    locals,         \* [X, y_true, y_pred] once recovered
    trace,          \* what the call did so far, in order
    raised,         \* the exception that left the entry point, or NoExc
    \* ---- _chunk_dict
    d,              \* the mapping, as its items in iteration order
    chunk_size,
    gen,            \* generator state: "created", "running", "exhausted", "raised"
    it,             \* how many keys iter(d) has handed out
    rng,            \* what is left of range(0, len(d), chunk_size)
    chunks,         \* the chunks yielded so far
    \* ---- _truncate_dict
    t_call,         \* [d, max_key_length, max_value_length]
    t_result,       \* [exc, truncated, warnings] or NotCalled
    \* ---- _backported_all_estimators
    e_call,         \* [members, type_filter, is_pypy]
    e_result        \* [exc, estimators] or NotCalled

vars == <<xy_call, xy_result, entry, fit_arg_names, fit_args, fit_kwargs, pc, idx,
          locals, trace, raised, d, chunk_size, gen, it, rng, chunks,
          t_call, t_result, e_call, e_result>>

xyVars == <<xy_call, xy_result>>
metricVars == <<entry, fit_arg_names, fit_args, fit_kwargs, pc, idx, locals, trace, raised>>
chunkVars == <<d, chunk_size, gen, it, rng, chunks>>
truncVars == <<t_call, t_result>>
estVars == <<e_call, e_result>>

-----------------------------------------------------------------------------
(* Bounds of the model.                                                    *)

\* longest positional argument list of a fit call
MaxArgs == 3

\* opaque argument values
Values == {"a", "b"}

\* Python's None
None == "None"

\* parameter names that occur in the modelled signatures and keyword arguments
ParamNames == {"X", "y", "sample_weight"}

NotCalled == [exc |-> "not called"]
NoExc == [exc |-> "none", val |-> <<>>]

Ok(v) == [exc |-> "none", val |-> v]
Raise(e, a) == [exc |-> e, val |-> <<a>>]

\* every positional argument list of at most n values
ArgLists(n) == UNION {[1..k -> Values] : k \in 0..n}

\* every keyword mapping over the parameter names
KwargMaps == UNION {[S -> Values] : S \in SUBSET ParamNames}

\* sequences over S without repetition, of length lo..hi
Arrangements(S, lo, hi) ==
    {s \in UNION {[1..k -> S] : k \in lo..hi} :
        \A i, j \in DOMAIN s : i # j => s[i] # s[j]}

\* list.index(x): position of the first occurrence, 0-based
IndexOf(s, x) == (CHOOSE i \in 1..Len(s) : s[i] = x /\ \A j \in 1..(i-1) : s[j] # x) - 1

\* x in list
InList(x, s) == \E i \in 1..Len(s) : s[i] = x

\* s[:n] for a list and n >= 0
Take(s, n) == SubSeq(s, 1, IF n < Len(s) THEN n ELSE Len(s))

-----------------------------------------------------------------------------
(* Argument recoverer.                                                     *)

_SAMPLE_WEIGHT == "sample_weight"

\* a faulty variant of _get_Xy: a keyword argument named like the parameter wins
_get_Xy_kwargs_first(args, kwargs, X_var_name, y_var_name) ==
    IF X_var_name \in DOMAIN kwargs /\ y_var_name \in DOMAIN kwargs
    THEN Ok(<<kwargs[X_var_name], kwargs[y_var_name]>>)
    ELSE IF Len(args) >= 2 THEN Ok(Take(args, 2))
    ELSE IF Len(args) = 1 /\ y_var_name \in DOMAIN kwargs
    THEN Ok(<<args[1], kwargs[y_var_name]>>)
    ELSE Raise("KeyError", y_var_name)

_get_Xy(args, kwargs, X_var_name, y_var_name) ==
    IF Len(args) >= 2 THEN Ok(Take(args, 2))
    ELSE IF Len(args) = 1
    THEN IF y_var_name \in DOMAIN kwargs
         THEN Ok(<<args[1], kwargs[y_var_name]>>)
         ELSE Raise("KeyError", y_var_name)
    ELSE IF X_var_name \notin DOMAIN kwargs THEN Raise("KeyError", X_var_name)
    ELSE IF y_var_name \notin DOMAIN kwargs THEN Raise("KeyError", y_var_name)
    ELSE Ok(<<kwargs[X_var_name], kwargs[y_var_name]>>)

\* _get_sample_weight, called only when _SAMPLE_WEIGHT is in arg_names
_get_sample_weight(arg_names, args, kwargs) ==
    LET sample_weight_index == IndexOf(arg_names, _SAMPLE_WEIGHT)
    IN  IF Len(args) > sample_weight_index THEN args[sample_weight_index + 1]
        ELSE IF _SAMPLE_WEIGHT \in DOMAIN kwargs THEN kwargs[_SAMPLE_WEIGHT]
        ELSE None

\* a callable is modelled by its declared parameters, in declaration order
_get_arg_names(f) == f.parameters

\* a faulty variant of _get_args_for_score: only the fit function's names are consulted
_get_args_for_score_fit_only(score_func, fit_func, args, kwargs) ==
    LET names == _get_arg_names(fit_func)
        Xy == _get_Xy(args, kwargs, names[1], names[2])
    IN  IF Len(names) < 2 THEN Raise("ValueError", "not enough values to unpack")
        ELSE IF Xy.exc # "none" THEN Xy
        ELSE IF InList(_SAMPLE_WEIGHT, names)
        THEN Ok(Xy.val \o <<_get_sample_weight(names, args, kwargs)>>)
        ELSE Xy

_get_args_for_score(score_func, fit_func, args, kwargs) ==
    LET score_arg_names == _get_arg_names(score_func)
        names == _get_arg_names(fit_func)
    IN  \* X_var_name, y_var_name = fit_arg_names[:2]
        IF Len(Take(names, 2)) < 2
        THEN Raise("ValueError", "not enough values to unpack")
        ELSE LET Xy == _get_Xy(args, kwargs, names[1], names[2])
             IN  IF Xy.exc # "none" THEN Xy
                 ELSE IF InList(_SAMPLE_WEIGHT, names)
                         /\ InList(_SAMPLE_WEIGHT, score_arg_names)
                 THEN Ok(Xy.val \o <<_get_sample_weight(names, args, kwargs)>>)
                 ELSE Xy

\* the signatures of the modelled fit and score functions
FitFuncs == {[parameters |-> s] : s \in Arrangements(ParamNames, 1, 3)}
ScoreFuncs == {[parameters |-> <<"X", "y">>], [parameters |-> <<"X", "y", "sample_weight">>]}

NoFunc == [parameters |-> <<>>]

XyIdle == xy_call = [op |-> "none"] /\ xy_result = NotCalled

XyCalls ==
    {[op |-> "_get_Xy", args |-> a, kwargs |-> k, first |-> f, second |-> s,
      score |-> NoFunc, fit |-> NoFunc] :
        a \in ArgLists(MaxArgs), k \in KwargMaps, f \in ParamNames, s \in ParamNames}
    \cup
    {[op |-> "_get_args_for_score", args |-> a, kwargs |-> k, first |-> "", second |-> "",
      score |-> sf, fit |-> ff] :
        a \in ArgLists(MaxArgs), k \in KwargMaps, sf \in ScoreFuncs, ff \in FitFuncs}

Call_get_Xy ==
    /\ xy_call.op = "_get_Xy"
    /\ xy_result = NotCalled
    /\ xy_result' = _get_Xy(xy_call.args, xy_call.kwargs, xy_call.first, xy_call.second)
    /\ UNCHANGED <<xy_call, metricVars, chunkVars, truncVars, estVars>>

Call_get_args_for_score ==
    /\ xy_call.op = "_get_args_for_score"
    /\ xy_result = NotCalled
    /\ xy_result' = _get_args_for_score(xy_call.score, xy_call.fit,
                                       xy_call.args, xy_call.kwargs)
    /\ UNCHANGED <<xy_call, metricVars, chunkVars, truncVars, estVars>>

-----------------------------------------------------------------------------
(* Metric engine: _log_classifier_metrics, _log_regressor_metrics and      *)
(* log_clusterer_metrics.                                                  *)

\* the exceptions a metric function, predict and the sink raise
ScoringError == Raise("ValueError", "scoring failed")
PredictError == Raise("ValueError", "predict failed")
SinkError == Raise("MlflowException", "log_metric failed")

\* trained_model.predict(X): an opaque value determined by X
Predict(X) == IF X = "a" THEN "predict(a)" ELSE "predict(b)"

\* name_obj_metrics_dict, in insertion order (the order .items() iterates in)
name_obj_metrics_dict(e) ==
    CASE e = "classifier" ->
           << [name |-> "precision_score", func |-> "precision_score"],
              [name |-> "recall_score", func |-> "recall_score"],
              [name |-> "f1_score", func |-> "f1_score"],
              [name |-> "accuracy_score", func |-> "accuracy_score"] >>
      [] e = "regressor" ->
           << [name |-> "mse", func |-> "mean_squared_error"],
              [name |-> "rmse", func |-> "mean_squared_error"],
              [name |-> "mae", func |-> "mean_absolute_error"],
              [name |-> "r2_score", func |-> "r2_score"] >>
      [] e = "clusterer" ->
           << [name |-> "completeness_score", func |-> "completeness_score"],
              [name |-> "homogeneity_score", func |-> "homogeneity_score"],
              [name |-> "v_measure_score", func |-> "v_measure_score"] >>

\* name_args_metrics_dict[func_name]
name_args_metrics_dict(e, func_name, y_true, y_pred) ==
    CASE e = "classifier" ->
           IF func_name = "accuracy_score"
           THEN <<y_true, y_pred, "True">>
           ELSE <<y_true, y_pred, None, "1", "weighted">>
      [] e = "regressor" -> <<y_true, y_pred>>
      [] e = "clusterer" ->
           IF func_name = "v_measure_score"
           THEN <<y_true, y_pred, "1.0">>
           ELSE <<y_true, y_pred>>

\* a faulty variant of func_args: the regressor's sample weight is appended
\* after the multioutput default, as the classifier's is after its template
func_args_weight_last(e, func_name, names, args, kwargs, y_true, y_pred) ==
    LET template == name_args_metrics_dict(e, func_name, y_true, y_pred)
        extras == CASE e = "regressor" /\ func_name = "rmse" -> <<"uniform_average", "False">>
                    [] e = "regressor" /\ func_name # "rmse" -> <<"uniform_average">>
                    [] OTHER -> <<>>
    IN  IF e # "clusterer" /\ InList(_SAMPLE_WEIGHT, names)
        THEN template \o extras \o <<_get_sample_weight(names, args, kwargs)>>
        ELSE template \o extras

\* the argument list the try block builds for one catalog entry
func_args(e, func_name, names, args, kwargs, y_true, y_pred) ==
    LET template == name_args_metrics_dict(e, func_name, y_true, y_pred)
        weighted == IF InList(_SAMPLE_WEIGHT, names)
                    THEN template \o <<_get_sample_weight(names, args, kwargs)>>
                    ELSE template
    IN  CASE e = "classifier" -> weighted
          [] e = "regressor" ->
               IF func_name = "rmse"
               THEN weighted \o <<"uniform_average", "False">>
               ELSE weighted \o <<"uniform_average">>
          [] e = "clusterer" -> template

\* a faulty variant of except_Exception: the handler lets the exception go on
except_reraises(exc) == exc

\* "except Exception as e": what leaves the try statement when its body raised exc
except_Exception(exc) == NoExc

\* mlflow.log_metric, the Logging Sink: it records the metric or fails
log_metric(sink_ok) == IF sink_ok THEN NoExc ELSE SinkError

\* mlflow.utils.autologging_utils.try_mlflow_log: the sink wrapper tolerates a
\* failure of the call it makes
try_mlflow_log(outcome) == NoExc

\* a faulty variant of forward_metric: the sink is called without its wrapper
forward_metric_unwrapped(sink_ok) == log_metric(sink_ok)

\* the else clause: try_mlflow_log(mlflow.log_metric, func_name, func_score)
forward_metric(sink_ok) == try_mlflow_log(log_metric(sink_ok))

NoValue == [func |-> "", args |-> <<>>]

Event(ev, name, func, args, ok, value) ==
    [ev |-> ev, name |-> name, func |-> func, args |-> args, ok |-> ok, value |-> value]

NoLocals == [X |-> None, y_true |-> None, y_pred |-> None]

\* the signatures trained_model.fit has in the model
ModelFitSignatures == {<<"X">>, <<"X", "y">>, <<"X", "y", "sample_weight">>}

EntryPoints == {"classifier", "regressor", "clusterer"}

MetricsIdle ==
    /\ entry = "none" /\ fit_arg_names = <<>> /\ fit_args = <<>> /\ fit_kwargs = <<>>
    /\ pc = "idle" /\ idx = 0 /\ locals = NoLocals /\ trace = <<>> /\ raised = NoExc

MetricsInit ==
    /\ entry \in EntryPoints
    /\ fit_arg_names \in ModelFitSignatures
    /\ fit_args \in ArgLists(MaxArgs)
    /\ fit_kwargs \in KwargMaps
    /\ pc = "start" /\ idx = 0 /\ locals = NoLocals /\ trace = <<>> /\ raised = NoExc

\* a faulty variant of recover_inputs: a missing value is replaced by None
recover_inputs_lenient(names, args, kwargs) ==
    IF Len(Take(names, 2)) < 2 THEN Raise("ValueError", "not enough values to unpack")
    ELSE LET r == _get_Xy(args, kwargs, names[1], names[2])
         IN  IF r.exc = "none" THEN r ELSE Ok(<<None, None>>)

\* X_var_name, y_var_name = fit_arg_names[:2]
\* X, y_true = _get_Xy(fit_args, fit_kwargs, X_var_name, y_var_name)
recover_inputs(names, args, kwargs) ==
    IF Len(Take(names, 2)) < 2 THEN Raise("ValueError", "not enough values to unpack")
    ELSE _get_Xy(args, kwargs, names[1], names[2])

\* the statements before the loop: recover (X, y_true), then predict
Begin(e) ==
    /\ entry = e
    /\ pc = "start"
    /\ LET r == recover_inputs(fit_arg_names, fit_args, fit_kwargs)
       IN  IF r.exc # "none"
           THEN /\ pc' = "raised"
                /\ raised' = r
                /\ UNCHANGED <<idx, locals, trace>>
           ELSE \E predict_ok \in BOOLEAN :
                  LET X == r.val[1]
                      call == Event("predict", "", "predict", <<X>>, predict_ok, NoValue)
                  IN  /\ trace' = Append(trace, call)
                      /\ IF predict_ok
                         THEN /\ locals' = [X |-> X, y_true |-> r.val[2],
                                            y_pred |-> Predict(X)]
                              /\ pc' = "loop"
                              /\ idx' = 1
                              /\ UNCHANGED raised
                         ELSE /\ pc' = "raised"
                              /\ raised' = PredictError
                              /\ UNCHANGED <<idx, locals>>
    /\ UNCHANGED <<entry, fit_arg_names, fit_args, fit_kwargs>>

\* a faulty variant of next_index: the loop ends at the first metric that raised
next_index_break(e, i, failed) ==
    IF failed THEN Len(name_obj_metrics_dict(e)) + 1 ELSE i + 1

\* the for statement moves to the next item of name_obj_metrics_dict
next_index(e, i, failed) == i + 1

\* one pass of the loop body: try / except / else
Iteration(e) ==
    /\ entry = e
    /\ pc = "loop"
    /\ idx <= Len(name_obj_metrics_dict(e))
    /\ LET m == name_obj_metrics_dict(e)[idx]
           a == func_args(e, m.name, fit_arg_names, fit_args, fit_kwargs,
                          locals.y_true, locals.y_pred)
           func_score == [func |-> m.func, args |-> a]
       IN  \E returns \in BOOLEAN, sink_ok \in BOOLEAN :
             LET call == Event("call", m.name, m.func, a, returns, NoValue)
             IN  IF ~returns
                 THEN LET left == except_Exception(ScoringError)
                          warning == Event("warning", m.name, m.func,
                                           ScoringError.val, TRUE, NoValue)
                      IN  /\ sink_ok
                          /\ trace' = trace \o <<call, warning>>
                          /\ IF left.exc = "none"
                             THEN /\ idx' = next_index(e, idx, TRUE)
                                  /\ UNCHANGED <<pc, raised>>
                             ELSE /\ pc' = "raised"
                                  /\ raised' = left
                                  /\ UNCHANGED idx
                 ELSE LET left == forward_metric(sink_ok)
                          log == Event("log_metric", m.name, "mlflow.log_metric",
                                       <<m.name>>, sink_ok, func_score)
                      IN  /\ trace' = trace \o <<call, log>>
                          /\ IF left.exc = "none"
                             THEN /\ idx' = next_index(e, idx, FALSE)
                                  /\ UNCHANGED <<pc, raised>>
                             ELSE /\ pc' = "raised"
                                  /\ raised' = left
                                  /\ UNCHANGED idx
    /\ UNCHANGED <<entry, fit_arg_names, fit_args, fit_kwargs, locals>>

\* the loop is exhausted and the function returns None
Return(e) ==
    /\ entry = e
    /\ pc = "loop"
    /\ idx > Len(name_obj_metrics_dict(e))
    /\ pc' = "returned"
    /\ UNCHANGED <<entry, fit_arg_names, fit_args, fit_kwargs, idx, locals, trace, raised>>

_log_classifier_metrics ==
    /\ Begin("classifier") \/ Iteration("classifier") \/ Return("classifier")
    /\ UNCHANGED <<xyVars, chunkVars, truncVars, estVars>>

_log_regressor_metrics ==
    /\ Begin("regressor") \/ Iteration("regressor") \/ Return("regressor")
    /\ UNCHANGED <<xyVars, chunkVars, truncVars, estVars>>

log_clusterer_metrics ==
    /\ Begin("clusterer") \/ Iteration("clusterer") \/ Return("clusterer")
    /\ UNCHANGED <<xyVars, chunkVars, truncVars, estVars>>

-----------------------------------------------------------------------------
(* _chunk_dict: a generator over a mapping.  A mapping is the sequence of  *)
(* its items <<key, value>> in iteration order, with distinct keys.        *)

\* most entries of a chunked mapping
MaxDictLen == 3

\* largest chunk size tried; sizes range over -MaxChunkSize..MaxChunkSize
MaxChunkSize == 4

DictKeys == {"a", "b", "c", "d", "e"}
DictValues == {1, 2}

\* every mapping of lo..hi entries with keys in K and values in V
Dicts(K, V, lo, hi) ==
    {s \in UNION {[1..k -> K \X V] : k \in lo..hi} :
        \A i, j \in DOMAIN s : i # j => s[i][1] # s[j][1]}

\* d[k]
DictGet(m, k) == m[CHOOSE i \in DOMAIN m : m[i][1] = k][2]

\* k in d
DictHas(m, k) == \E i \in DOMAIN m : m[i][1] = k

\* d[k] = v: an existing key keeps its place, a new one goes last
DictSet(m, k, v) ==
    IF DictHas(m, k)
    THEN [i \in DOMAIN m |-> IF m[i][1] = k THEN <<k, v>> ELSE m[i]]
    ELSE Append(m, <<k, v>>)

\* list(range(start, stop, step)) for step # 0
RECURSIVE RangeList(_, _, _)
RangeList(start, stop, step) ==
    IF (step > 0 /\ start < stop) \/ (step < 0 /\ start > stop)
    THEN <<start>> \o RangeList(start + step, stop, step)
    ELSE <<>>

\* a faulty variant of islice_count: one key too few is taken
islice_count_short(consumed, total, n) ==
    IF n - 1 < total - consumed THEN n - 1 ELSE total - consumed

\* how many keys islice(it, n) takes from an iterator that handed out
\* `consumed` of `total` keys (n >= 0)
islice_count(consumed, total, n) ==
    IF n < total - consumed THEN n ELSE total - consumed

\* {k: d[k] for k in islice(it, chunk_size)}
chunk_of(m, consumed, n) ==
    LET take == islice_count(consumed, Len(m), n)
    IN  [i \in 1..take |-> <<m[consumed + i][1], DictGet(m, m[consumed + i][1])>>]

ChunkIdle ==
    /\ d = <<>> /\ chunk_size = 1 /\ gen = "idle" /\ it = 0 /\ rng = <<>> /\ chunks = <<>>

ChunkInit ==
    /\ d \in Dicts(DictKeys, DictValues, 0, MaxDictLen)
    /\ chunk_size \in (0 - MaxChunkSize)..MaxChunkSize
    /\ gen = "created" /\ it = 0 /\ rng = <<>> /\ chunks = <<>>

\* next() on the generator.  The body starts at the first call: it = iter(d)
\* and range(0, len(d), chunk_size), which raises for a step of zero.
chunk_next ==
    /\ gen \in {"created", "running"}
    /\ IF gen = "created" /\ chunk_size = 0
       THEN /\ gen' = "raised"
            /\ UNCHANGED <<it, rng, chunks>>
       ELSE LET r == IF gen = "created" THEN RangeList(0, Len(d), chunk_size) ELSE rng
            IN  IF r = <<>>
                THEN /\ gen' = "exhausted"
                     /\ rng' = r
                     /\ UNCHANGED <<it, chunks>>
                ELSE IF chunk_size < 0
                THEN \* islice() refuses a negative stop
                     /\ gen' = "raised"
                     /\ rng' = Tail(r)
                     /\ UNCHANGED <<it, chunks>>
                ELSE /\ gen' = "running"
                     /\ rng' = Tail(r)
                     /\ chunks' = Append(chunks, chunk_of(d, it, chunk_size))
                     /\ it' = it + islice_count(it, Len(d), chunk_size)
    /\ UNCHANGED <<d, chunk_size>>
    /\ UNCHANGED <<xyVars, metricVars, truncVars, estVars>>

-----------------------------------------------------------------------------
(* _truncate_dict.  A key or value is a string (a sequence of characters)  *)
(* or an integer; str() leaves the first alone and converts the second.    *)

\* most entries of a truncated mapping
MaxEntries == 2

\* largest max_key_length and max_value_length tried
MaxLimit == 2

StrObj(s) == [t |-> "str", n |-> 0, s |-> s]
IntObj(n) == [t |-> "int", n |-> n, s |-> <<>>]
NoObj == [t |-> "none", n |-> 0, s |-> <<>>]

DigitChars == <<"0", "1", "2", "3", "4", "5", "6", "7", "8", "9">>

\* the decimal digits of n >= 0
RECURSIVE Digits(_)
Digits(n) == IF n < 10 THEN <<DigitChars[n + 1]>>
             ELSE Digits(n \div 10) \o <<DigitChars[(n % 10) + 1]>>

\* str(o), as a sequence of characters
Str(o) == IF o.t = "str" THEN o.s ELSE Digits(o.n)

\* an optional limit: None, or a length
NoLimit == [given |-> FALSE, n |-> 0]
Limit(n) == [given |-> TRUE, n |-> n]
Limits == {NoLimit} \cup {Limit(n) : n \in 0..MaxLimit}

TruncKeys == {StrObj(<<"a">>), StrObj(<<"a", "b">>), StrObj(<<"a", "c">>),
              StrObj(<<"1">>), IntObj(1), IntObj(12)}
TruncValues == {StrObj(<<"x">>), StrObj(<<"x", "y">>), IntObj(12)}

\* a faulty variant of should_truncate: a string as long as the limit is cut too
should_truncate_at_limit(o, limit) == limit.given /\ Len(Str(o)) >= limit.n

\* (not key_is_none) and (len(str(k)) > max_key_length)
should_truncate(o, limit) == limit.given /\ Len(Str(o)) > limit.n

\* str(o)[:max_length] if should_truncate else o
truncated_obj(o, limit) ==
    IF should_truncate(o, limit) THEN StrObj(Take(Str(o), limit.n)) ELSE o

\* the warnings one entry gives rise to, the key's before the value's
entry_warnings(k, v, max_key_length, max_value_length) ==
    (IF should_truncate(k, max_key_length)
     THEN <<[kind |-> "key", k |-> k, v |-> NoObj]>> ELSE <<>>)
    \o
    (IF should_truncate(v, max_value_length)
     THEN <<[kind |-> "value", k |-> k, v |-> v]>> ELSE <<>>)

\* the for loop over d.items(), from item i on
RECURSIVE truncate_loop(_, _, _, _, _, _)
truncate_loop(m, i, max_key_length, max_value_length, truncated, warnings) ==
    IF i > Len(m) THEN [exc |-> "none", truncated |-> truncated, warnings |-> warnings]
    ELSE LET k == m[i][1]
             v == m[i][2]
             new_k == truncated_obj(k, max_key_length)
             new_v == truncated_obj(v, max_value_length)
         IN  truncate_loop(m, i + 1, max_key_length, max_value_length,
                           DictSet(truncated, new_k, new_v),
                           warnings \o entry_warnings(k, v, max_key_length,
                                                      max_value_length))

_truncate_dict(m, max_key_length, max_value_length) ==
    IF ~max_key_length.given /\ ~max_value_length.given
    THEN [exc |-> "ValueError", truncated |-> <<>>, warnings |-> <<>>]
    ELSE truncate_loop(m, 1, max_key_length, max_value_length, <<>>, <<>>)

TruncIdle == t_call = [op |-> "none"] /\ t_result = NotCalled

TruncInit ==
    /\ t_call \in {[op |-> "_truncate_dict", d |-> m, max_key_length |-> mk,
                    max_value_length |-> mv] :
                     m \in Dicts(TruncKeys, TruncValues, 0, MaxEntries),
                     mk \in Limits, mv \in Limits}
    /\ t_result = NotCalled

Call_truncate_dict ==
    /\ t_call.op = "_truncate_dict"
    /\ t_result = NotCalled
    /\ t_result' = _truncate_dict(t_call.d, t_call.max_key_length, t_call.max_value_length)
    /\ UNCHANGED t_call
    /\ UNCHANGED <<xyVars, metricVars, chunkVars, estVars>>

-----------------------------------------------------------------------------
(* _backported_all_estimators.  A class name is a sequence of characters;  *)
(* a class is a record of what the code asks of it.  The package walk is   *)
(* given by its outcome: the (module, name, class) members it meets.       *)

\* the characters of the modelled names, in code point order
Alphabet == <<"A", "B", "C", "E", "F", "H", "_", "a", "e", "h", "i", "m", "o",
              "r", "s", "t", "u">>

Ord(c) == CHOOSE i \in 1..Len(Alphabet) : Alphabet[i] = c

\* a < b for Python strings
RECURSIVE StrLess(_, _)
StrLess(a, b) ==
    IF b = <<>> THEN FALSE
    ELSE IF a = <<>> THEN TRUE
    ELSE IF Ord(Head(a)) # Ord(Head(b)) THEN Ord(Head(a)) < Ord(Head(b))
    ELSE StrLess(Tail(a), Tail(b))

BaseEstimatorName == <<"B", "a", "s", "e", "E", "s", "t", "i", "m", "a", "t", "o", "r">>
FeatureHasherName == <<"F", "e", "a", "t", "u", "r", "e", "H", "a", "s", "h", "e", "r">>

\* name.startswith("_")
StartsWithUnderscore(name) == name # <<>> /\ Head(name) = "_"

Class(id, estimator, abstract, mixins) ==
    [id |-> id, estimator |-> estimator, abstract |-> abstract, mixins |-> mixins]

BaseEstimator == Class(0, TRUE, FALSE, {})
SVC == Class(1, TRUE, FALSE, {"classifier"})
Ridge == Class(2, TRUE, FALSE, {"regressor"})
Selector == Class(3, TRUE, FALSE, {"classifier", "transformer"})
AbstractBase == Class(4, TRUE, TRUE, {"classifier"})
Helper == Class(5, FALSE, FALSE, {})
Hasher == Class(6, TRUE, FALSE, {"transformer"})

Member(module, name, cls) == [module |-> module, name |-> name, cls |-> cls]

\* what inspect.getmembers finds in the walked modules
MemberPool ==
    { Member(<<"sklearn", "svm">>, <<"A">>, SVC),
      Member(<<"sklearn", "linear_model">>, <<"A">>, Ridge),
      Member(<<"sklearn", "svm">>, <<"C">>, Selector),
      Member(<<"sklearn", "linear_model">>, <<"C">>, Selector),
      Member(<<"sklearn", "base">>, BaseEstimatorName, BaseEstimator),
      Member(<<"sklearn", "svm">>, <<"B">>, AbstractBase),
      Member(<<"sklearn", "svm">>, <<"E">>, Helper),
      Member(<<"sklearn", "svm">>, <<"_", "A">>, SVC),
      Member(<<"sklearn", "tests">>, <<"H">>, Ridge),
      Member(<<"sklearn", "svm", "_base">>, <<"a">>, Ridge),
      Member(<<"sklearn", "feature_extraction">>, FeatureHasherName, Hasher),
      Member(<<"sklearn", "feature_extraction">>, <<"C">>, Selector) }

modules_to_ignore == {"tests", "externals", "setup", "conftest"}

\* the parts of the modelled module names that begin with an underscore
UnderscoreParts == {"_base"}

\* any(part in modules_to_ignore for part in mod_parts) or "._" in modname
module_skipped(module) ==
    \/ \E i \in DOMAIN module : module[i] \in modules_to_ignore
    \/ \E i \in DOMAIN module : i > 1 /\ module[i] \in UnderscoreParts

\* "feature_extraction" in modname
in_feature_extraction(module) == \E i \in DOMAIN module : module[i] = "feature_extraction"

\* all_classes after the walk, as set(all_classes): pairs <<name, class>>
all_classes(members, is_pypy) ==
    { <<m.name, m.cls>> : m \in
        { m \in members :
            /\ ~module_skipped(m.module)
            /\ ~StartsWithUnderscore(m.name)
            /\ (is_pypy /\ in_feature_extraction(m.module)) => m.name = FeatureHasherName } }

\* subclasses of BaseEstimator other than the one named BaseEstimator, not abstract
concrete_estimators(classes) ==
    { c \in classes : c[2].estimator /\ c[1] # BaseEstimatorName /\ ~c[2].abstract }

\* the keys of the filters dict, in insertion order
filters == <<"classifier", "regressor", "transformer", "cluster">>

\* list.remove(x): the first occurrence goes
ListRemove(s, x) ==
    LET i == IndexOf(s, x) + 1
    IN  SubSeq(s, 1, i - 1) \o SubSeq(s, i + 1, Len(s))

\* the loop over filters.items(): what is left of type_filter, and the estimators kept
RECURSIVE filter_loop(_, _, _, _)
filter_loop(i, type_filter, estimators, filtered) ==
    IF i > Len(filters) THEN [type_filter |-> type_filter, filtered |-> filtered]
    ELSE IF InList(filters[i], type_filter)
    THEN filter_loop(i + 1, ListRemove(type_filter, filters[i]), estimators,
                     filtered \cup {est \in estimators : filters[i] \in est[2].mixins})
    ELSE filter_loop(i + 1, type_filter, estimators, filtered)

\* the orders sorted(set(estimators), key=itemgetter(0)) can give: ascending by
\* name, entries of one name in the order the set happens to iterate in
RECURSIVE sorted_by_name(_)
sorted_by_name(S) ==
    IF S = {} THEN {<<>>}
    ELSE UNION { {<<m>> \o rest : rest \in sorted_by_name(S \ {m})} :
                 m \in {x \in S : \A z \in S : ~StrLess(z[1], x[1])} }

\* the type_filter argument: None, one string, or a list of strings
NoFilter == [kind |-> "none", items |-> <<>>]
OneFilter(x) == [kind |-> "str", items |-> <<x>>]
ListFilter(xs) == [kind |-> "list", items |-> xs]

TypeFilters ==
    { NoFilter, OneFilter("classifier"), OneFilter("cluster"), OneFilter("estimator"),
      ListFilter(<<>>), ListFilter(<<"transformer">>),
      ListFilter(<<"regressor", "classifier">>),
      ListFilter(<<"classifier", "classifier">>),
      ListFilter(<<"regressor", "meta">>) }

\* the estimators the function returns, or the ValueError it raises
_backported_all_estimators(members, type_filter, is_pypy) ==
    LET estimators == concrete_estimators(all_classes(members, is_pypy))
    IN  IF type_filter.kind = "none"
        THEN [exc |-> "none", estimators |-> sorted_by_name(estimators)]
        ELSE LET f == filter_loop(1, type_filter.items, estimators, {})
             IN  IF f.type_filter # <<>>
                 THEN [exc |-> "ValueError", estimators |-> {}]
                 ELSE [exc |-> "none", estimators |-> sorted_by_name(f.filtered)]

EstIdle == e_call = [op |-> "none"] /\ e_result = NotCalled

EstInit ==
    /\ e_call \in {[op |-> "_backported_all_estimators", members |-> ms,
                    type_filter |-> tf, is_pypy |-> py] :
                     ms \in SUBSET MemberPool, tf \in TypeFilters, py \in BOOLEAN}
    /\ e_result = NotCalled

Call_backported_all_estimators ==
    /\ e_call.op = "_backported_all_estimators"
    /\ e_result = NotCalled
    /\ LET r == _backported_all_estimators(e_call.members, e_call.type_filter,
                                          e_call.is_pypy)
       IN  IF r.exc # "none"
           THEN e_result' = [exc |-> r.exc, estimators |-> <<>>]
           ELSE \E order \in r.estimators :
                    e_result' = [exc |-> "none", estimators |-> order]
    /\ UNCHANGED e_call
    /\ UNCHANGED <<xyVars, metricVars, chunkVars, truncVars>>

-----------------------------------------------------------------------------
(* Specifications: one per part of the module, the other parts at rest.    *)

InitXy == xy_call \in XyCalls /\ xy_result = NotCalled
          /\ MetricsIdle /\ ChunkIdle /\ TruncIdle /\ EstIdle
NextXy == Call_get_Xy \/ Call_get_args_for_score
SpecXy == InitXy /\ [][NextXy]_vars

InitMetrics == XyIdle /\ MetricsInit /\ ChunkIdle /\ TruncIdle /\ EstIdle
NextMetrics == _log_classifier_metrics \/ _log_regressor_metrics \/ log_clusterer_metrics
SpecMetrics == InitMetrics /\ [][NextMetrics]_vars

InitChunk == XyIdle /\ MetricsIdle /\ ChunkInit /\ TruncIdle /\ EstIdle
NextChunk == chunk_next
SpecChunk == InitChunk /\ [][NextChunk]_vars

InitTruncate == XyIdle /\ MetricsIdle /\ ChunkIdle /\ TruncInit /\ EstIdle
NextTruncate == Call_truncate_dict
SpecTruncate == InitTruncate /\ [][NextTruncate]_vars

InitEstimators == XyIdle /\ MetricsIdle /\ ChunkIdle /\ TruncIdle /\ EstInit
NextEstimators == Call_backported_all_estimators
SpecEstimators == InitEstimators /\ [][NextEstimators]_vars

-----------------------------------------------------------------------------
(* Properties of the argument recoverer, under SpecXy.                     *)

\* C2: _get_Xy returns the first two positional values when there are at least
\* two, whatever the keyword arguments hold; (args[0], kwargs[second]) for one
\* positional value; (kwargs[first], kwargs[second]) for none; and raises
\* KeyError exactly when a keyword the selected case looks up is absent.
C2_GetXyCases ==
    (xy_call.op = "_get_Xy" /\ xy_result.exc # "not called") =>
        LET a == xy_call.args
            k == xy_call.kwargs
            first == xy_call.first
            second == xy_call.second
        IN  /\ Len(a) >= 2 => xy_result = [exc |-> "none", val |-> <<a[1], a[2]>>]
            /\ Len(a) = 1 =>
                 IF second \in DOMAIN k
                 THEN xy_result = [exc |-> "none", val |-> <<a[1], k[second]>>]
                 ELSE xy_result.exc = "KeyError"
            /\ Len(a) = 0 =>
                 IF first \in DOMAIN k /\ second \in DOMAIN k
                 THEN xy_result = [exc |-> "none", val |-> <<k[first], k[second]>>]
                 ELSE xy_result.exc = "KeyError"

\* two positional values were given together with keyword arguments of both
\* names that hold other values, and the call returned
C2_Witness ==
    /\ xy_call.op = "_get_Xy"
    /\ xy_result.exc = "none"
    /\ Len(xy_call.args) >= 2
    /\ xy_call.first \in DOMAIN xy_call.kwargs
    /\ xy_call.second \in DOMAIN xy_call.kwargs
    /\ xy_call.kwargs[xy_call.first] # xy_call.args[1]
    /\ xy_call.kwargs[xy_call.second] # xy_call.args[2]

\* "sample_weight" is a parameter of both the fit and the score function
InBothSignatures(c) ==
    /\ \E i \in DOMAIN c.fit.parameters : c.fit.parameters[i] = "sample_weight"
    /\ \E i \in DOMAIN c.score.parameters : c.score.parameters[i] = "sample_weight"

\* C3: when _get_args_for_score returns, it returns three values if
\* "sample_weight" is a parameter of both functions and two otherwise; the third
\* is the positional fit argument at the parameter's index when that many were
\* given, else the keyword argument, else None; looking it up raises nothing.
C3_ArgsForScoreShape ==
    (xy_call.op = "_get_args_for_score" /\ xy_result.exc # "not called") =>
        LET a == xy_call.args
            k == xy_call.kwargs
            names == xy_call.fit.parameters
            pos == CHOOSE i \in DOMAIN names : names[i] = "sample_weight"
            Xy == _get_Xy(a, k, names[1], names[2])
        IN  /\ xy_result.exc = "none" <=> (Len(names) >= 2 /\ Xy.exc = "none")
            /\ xy_result.exc = "none" =>
                 /\ Len(xy_result.val) = IF InBothSignatures(xy_call) THEN 3 ELSE 2
                 /\ SubSeq(xy_result.val, 1, 2) = Xy.val
                 /\ InBothSignatures(xy_call) =>
                      xy_result.val[3] = IF Len(a) >= pos THEN a[pos]
                                         ELSE IF "sample_weight" \in DOMAIN k
                                         THEN k["sample_weight"]
                                         ELSE "None"

\* the fit function takes sample_weight and the score function does not, and the
\* call returned (X, y) although a sample weight was given
C3_Witness ==
    /\ xy_call.op = "_get_args_for_score"
    /\ xy_result.exc = "none"
    /\ ~InBothSignatures(xy_call)
    /\ \E i \in DOMAIN xy_call.fit.parameters : xy_call.fit.parameters[i] = "sample_weight"
    /\ "sample_weight" \in DOMAIN xy_call.kwargs
    /\ Len(xy_result.val) = 2

-----------------------------------------------------------------------------
(* Properties of the metric engine, under SpecMetrics.                     *)

IsCall(ev) == ev.ev = "call"
IsOutcome(ev) == ev.ev \in {"warning", "log_metric"}

\* the calls of metric functions and the outcomes (log or warning), in order
Calls == SelectSeq(trace, IsCall)
Outcomes == SelectSeq(trace, IsOutcome)

\* the catalogs as the specification lists them
CatalogOrder ==
    [classifier |-> <<"precision_score", "recall_score", "f1_score", "accuracy_score">>,
     regressor |-> <<"mse", "rmse", "mae", "r2_score">>,
     clusterer |-> <<"completeness_score", "homogeneity_score", "v_measure_score">>]

\* C1: a metric function that raises does not end the call: the entry point
\* raises only before its loop, and when it has returned every catalog entry was
\* invoked and every one that returned had its name and value forwarded.
C1_MetricFailureIsolated ==
    /\ (pc = "raised" => Calls = <<>>)
    /\ (pc = "loop" /\ idx <= Len(CatalogOrder[entry]) => ENABLED NextMetrics)
    /\ (pc = "returned" =>
          \A j \in DOMAIN CatalogOrder[entry] :
             \E i \in DOMAIN trace :
                /\ trace[i].ev = "call"
                /\ trace[i].name = CatalogOrder[entry][j]
                /\ trace[i].ok =>
                     \E l \in DOMAIN trace :
                        /\ l > i
                        /\ trace[l].ev = "log_metric"
                        /\ trace[l].name = trace[i].name
                        /\ trace[l].value = [func |-> trace[i].func,
                                             args |-> trace[i].args])

\* the entry point returned after a metric function raised and a later one was
\* invoked and forwarded
C1_Witness ==
    /\ pc = "returned"
    /\ \E i, j, l \in DOMAIN trace :
          /\ i < j /\ j < l
          /\ trace[i].ev = "call" /\ ~trace[i].ok
          /\ trace[j].ev = "call" /\ trace[j].ok
          /\ trace[l].ev = "log_metric" /\ trace[l].name = trace[j].name

\* a value _get_Xy has to look up in the keyword arguments is not there
XyMissing ==
    /\ Len(fit_arg_names) >= 2
    /\ \/ Len(fit_args) = 1 /\ fit_arg_names[2] \notin DOMAIN fit_kwargs
       \/ /\ Len(fit_args) = 0
          /\ \/ fit_arg_names[1] \notin DOMAIN fit_kwargs
             \/ fit_arg_names[2] \notin DOMAIN fit_kwargs

\* C8: when (X, y) cannot be recovered the KeyError leaves the entry point, and
\* neither predict nor a metric function nor the sink was called.
C8_MissingArgumentAborts ==
    (XyMissing /\ pc # "start") =>
        /\ pc = "raised"
        /\ raised.exc = "KeyError"
        /\ trace = <<>>

\* an entry point was called with one positional argument and no keyword for
\* the second parameter, and has raised
C8_Witness ==
    /\ XyMissing
    /\ Len(fit_args) = 1
    /\ pc = "raised"
    /\ entry \in {"classifier", "regressor", "clusterer"}

C10_OneOutcomePerEntryInOrder ==
    pc \in {"loop", "returned"} =>
        /\ Len(Outcomes) = idx - 1
        /\ Len(Calls) = idx - 1
        /\ Len(Outcomes) <= Len(CatalogOrder[entry])
        /\ \A j \in DOMAIN Outcomes :
              /\ Outcomes[j].name = CatalogOrder[entry][j]
              /\ Calls[j].name = CatalogOrder[entry][j]
              /\ Outcomes[j].ev = IF Calls[j].ok THEN "log_metric" ELSE "warning"
        /\ (pc = "returned" => Len(Outcomes) = Len(CatalogOrder[entry]))

\* the entry point returned with both a warning and a log emission among its
\* outcomes
C10_Witness ==
    /\ pc = "returned"
    /\ \E i, j \in DOMAIN Outcomes :
          Outcomes[i].ev = "warning" /\ Outcomes[j].ev = "log_metric"

\* "sample_weight" is a parameter of trained_model.fit
FitTakesSampleWeight == \E i \in DOMAIN fit_arg_names : fit_arg_names[i] = "sample_weight"

\* the sample weight of the fit call: the positional argument at the
\* parameter's place, else the keyword argument, else None
FitSampleWeight ==
    LET pos == CHOOSE i \in DOMAIN fit_arg_names : fit_arg_names[i] = "sample_weight"
    IN  IF Len(fit_args) >= pos THEN fit_args[pos]
        ELSE IF "sample_weight" \in DOMAIN fit_kwargs THEN fit_kwargs["sample_weight"]
        ELSE "None"

\* the fixed arguments of a metric, after (y_true, y_pred), as the docstrings
\* give them: before the sample weight, and after it
FixedBefore(e, name) ==
    CASE e = "classifier" /\ name = "accuracy_score" -> <<"True">>
      [] e = "classifier" /\ name # "accuracy_score" -> <<"None", "1", "weighted">>
      [] e = "clusterer" /\ name = "v_measure_score" -> <<"1.0">>
      [] OTHER -> <<>>

FixedAfter(e, name) ==
    CASE e = "regressor" /\ name = "rmse" -> <<"uniform_average", "False">>
      [] e = "regressor" /\ name # "rmse" -> <<"uniform_average">>
      [] OTHER -> <<>>

\* the argument list with the fit call's sample weight at its place, and without
WithWeight(e, name) ==
    <<locals.y_true, locals.y_pred>> \o FixedBefore(e, name)
        \o <<FitSampleWeight>> \o FixedAfter(e, name)

WithoutWeight(e, name) ==
    <<locals.y_true, locals.y_pred>> \o FixedBefore(e, name) \o FixedAfter(e, name)

-----------------------------------------------------------------------------
(* Properties of _chunk_dict, under SpecChunk.                             *)

\* the items of a sequence of chunks, in yield order
RECURSIVE Flatten(_)
Flatten(cs) == IF cs = <<>> THEN <<>> ELSE Head(cs) \o Flatten(Tail(cs))

\* C4: for a positive chunk size every chunk yielded holds between one and
\* chunk_size entries, the chunks yielded so far put end to end are the first
\* entries of d in d's order, and once the generator is exhausted they are all
\* of d, each entry in exactly one chunk; the generator does not raise.
C4_ChunksPartitionInOrder ==
    (chunk_size > 0 /\ gen # "idle") =>
        /\ gen # "raised"
        /\ \A c \in DOMAIN chunks :
              Len(chunks[c]) >= 1 /\ Len(chunks[c]) <= chunk_size
        /\ Len(Flatten(chunks)) <= Len(d)
        /\ Flatten(chunks) = SubSeq(d, 1, Len(Flatten(chunks)))
        /\ (gen = "exhausted" => Flatten(chunks) = d)

\* the generator is exhausted after a full chunk of two or more entries and a
\* last, shorter one
C4_Witness ==
    /\ gen = "exhausted"
    /\ chunk_size >= 2
    /\ Len(chunks) >= 2
    /\ Len(chunks[1]) = chunk_size
    /\ Len(chunks[Len(chunks)]) < chunk_size

\* C5: for a chunk size of zero or less the generator raises ValueError and
\* yields no chunk.
C5_NonPositiveChunkSizeRaises ==
    (chunk_size <= 0 /\ gen \in {"running", "exhausted", "raised"}) =>
        gen = "raised" /\ chunks = <<>>

-----------------------------------------------------------------------------
(* Properties of _truncate_dict, under SpecTruncate.                       *)

\* the first n characters of str(o) when a limit n is given and str(o) is
\* longer, o itself otherwise
Shortened(o, limit) ==
    IF limit.given /\ Len(Str(o)) > limit.n
    THEN [t |-> "str", n |-> 0, s |-> [j \in 1..limit.n |-> Str(o)[j]]]
    ELSE o

IsCut(o, limit) == limit.given /\ Len(Str(o)) > limit.n

\* how many warnings of a kind name the key k
WarningsFor(kind, k) ==
    Cardinality({w \in DOMAIN t_result.warnings :
                    t_result.warnings[w].kind = kind /\ t_result.warnings[w].k = k})

\* one warning per truncated key and per truncated value, each naming the
\* original key (and value), and no other warning
WarningsExact ==
    LET m == t_call.d
        mk == t_call.max_key_length
        mv == t_call.max_value_length
    IN  /\ \A i \in DOMAIN m :
              /\ WarningsFor("key", m[i][1]) = IF IsCut(m[i][1], mk) THEN 1 ELSE 0
              /\ WarningsFor("value", m[i][1]) = IF IsCut(m[i][2], mv) THEN 1 ELSE 0
        /\ \A w \in DOMAIN t_result.warnings :
              \E i \in DOMAIN m :
                 /\ t_result.warnings[w].k = m[i][1]
                 /\ t_result.warnings[w].kind = "value" => t_result.warnings[w].v = m[i][2]

\* C6 as stated: the result maps, for every entry (k, v) of d, the shortened
\* key to the shortened value, with one warning per truncation.
C6_EveryEntryMapped ==
    (t_call.op = "_truncate_dict" /\ t_result.exc = "none") =>
        /\ \A i \in DOMAIN t_call.d :
              LET k2 == Shortened(t_call.d[i][1], t_call.max_key_length)
                  v2 == Shortened(t_call.d[i][2], t_call.max_value_length)
              IN  \E j \in DOMAIN t_result.truncated :
                     t_result.truncated[j] = <<k2, v2>>
        /\ WarningsExact

\* C6 amended: the result's keys are the shortened keys of d, and each is
\* mapped to the shortened value of the last entry of d (in iteration order)
\* whose shortened key it is; one warning per truncation; limits are lengths
\* (zero or more), and the call raises ValueError exactly when none is given.
C6_LastEntryWinsPerShortenedKey ==
    (t_call.op = "_truncate_dict" /\ t_result.exc # "not called") =>
        LET m == t_call.d
            mk == t_call.max_key_length
            mv == t_call.max_value_length
            out == t_result.truncated
        IN  /\ t_result.exc = IF mk.given \/ mv.given THEN "none" ELSE "ValueError"
            /\ t_result.exc = "none" =>
                 /\ \A i \in DOMAIN m :
                       (\A l \in DOMAIN m : l > i => Shortened(m[l][1], mk) # Shortened(m[i][1], mk))
                       => \E j \in DOMAIN out :
                             out[j] = <<Shortened(m[i][1], mk), Shortened(m[i][2], mv)>>
                 /\ \A j \in DOMAIN out :
                       \E i \in DOMAIN m : out[j][1] = Shortened(m[i][1], mk)
                 /\ \A j1, j2 \in DOMAIN out : j1 # j2 => out[j1][1] # out[j2][1]
                 /\ WarningsExact

\* two keys of d were shortened to the same key: the result has fewer entries
\* than d, and a warning was given for each
C6_Witness ==
    /\ t_call.op = "_truncate_dict"
    /\ t_result.exc = "none"
    /\ Len(t_result.truncated) < Len(t_call.d)
    /\ Len(t_result.warnings) >= 2

-----------------------------------------------------------------------------
(* Properties of _backported_all_estimators, under SpecEstimators.         *)

\* C7: the estimators returned are in ascending order of name and no two of
\* them have the same name.
C7_NamesAscendingAndDistinct ==
    (e_call.op = "_backported_all_estimators" /\ e_result.exc = "none") =>
        \A i, j \in DOMAIN e_result.estimators :
            i < j => StrLess(e_result.estimators[i][1], e_result.estimators[j][1])

=============================================================================
